---- MODULE Spec2Model ----
(***************************************************************************)
(* DDCSupport.h: the declaration surface over the private display          *)
(* frameworks (IOAVService I2C, CoreDisplay, DisplayServices, CGS).        *)
(*                                                                         *)
(* The header is modelled as the table of its declarations, each record    *)
(* transcribed from one line of the header.  The state machine is the most *)
(* general well-typed caller of that surface: it holds typed values, calls *)
(* any declared entry point whose parameter types it can supply, and       *)
(* receives what the declaration says a call can hand back (the declared   *)
(* return value and writes through the declared pointer parameters).  What *)
(* the frameworks do inside a call is external and is left                 *)
(* nondeterministic.  Types are compared by their declared names, with the *)
(* header's own typedef resolved; the definitions of the platform types    *)
(* (CFTypeRef and the other CF references, io_service_t, IOReturn) live in *)
(* the included platform headers and are not part of this header.          *)
(***************************************************************************)
EXTENDS Naturals, Sequences, FiniteSets

VARIABLES
    present,    \* the declared symbols the loader bound at launch
    held,       \* the typed values the caller holds
    last,       \* the last call: entry point, arguments, result, writes
    prev,       \* the call before the last one
    called,     \* the entry points called so far
    ncalls,     \* number of calls made
    crashed     \* the caller called through an unbound symbol

vars == <<present, held, last, prev, called, ncalls, crashed>>

\* Bound on the length of a call sequence.
MaxCalls == 3

(***************************************************************************)
(* The header, line by line.                                               *)
(***************************************************************************)

\* line 7: typedef CFTypeRef IOAVService;
IOAVService == "CFTypeRef"

\* A declaration that carries a function body (an inline definition).
Decl_withBody(name, ret, params, extern, weak) ==
    [name |-> name, ret |-> ret, params |-> params,
     extern |-> extern, weak |-> weak, body |-> TRUE]

Decl(name, ret, params, extern, weak) ==
    [name |-> name, ret |-> ret, params |-> params,
     extern |-> extern, weak |-> weak, body |-> FALSE]

IOAVServiceCreate ==
    Decl("IOAVServiceCreate", IOAVService, <<"CFAllocatorRef">>, TRUE, FALSE)

IOAVServiceCreateWithService ==
    Decl("IOAVServiceCreateWithService", IOAVService,
         <<"CFAllocatorRef", "io_service_t">>, TRUE, FALSE)

\* The buffer and the chip address in each other's place.
IOAVServiceReadI2C_bufferFirst ==
    [name |-> "IOAVServiceReadI2C", ret |-> "IOReturn",
     params |-> <<IOAVService, "void*", "uint32_t", "uint32_t", "uint32_t">>,
     extern |-> TRUE, weak |-> FALSE, body |-> FALSE]

IOAVServiceReadI2C ==
    Decl("IOAVServiceReadI2C", "IOReturn",
         <<IOAVService, "uint32_t", "uint32_t", "void*", "uint32_t">>, TRUE, FALSE)

\* The write taking the raw service reference instead of the handle.
IOAVServiceWriteI2C_rawService ==
    [name |-> "IOAVServiceWriteI2C", ret |-> "IOReturn",
     params |-> <<"io_service_t", "uint32_t", "uint32_t", "void*", "uint32_t">>,
     extern |-> TRUE, weak |-> FALSE, body |-> FALSE]

IOAVServiceWriteI2C ==
    Decl("IOAVServiceWriteI2C", "IOReturn",
         <<IOAVService, "uint32_t", "uint32_t", "void*", "uint32_t">>, TRUE, FALSE)

\* The info dictionary declared with the handle's type.
CoreDisplay_DisplayCreateInfoDictionary_asHandle ==
    [name |-> "CoreDisplay_DisplayCreateInfoDictionary", ret |-> IOAVService,
     params |-> <<"CGDirectDisplayID">>,
     extern |-> TRUE, weak |-> FALSE, body |-> FALSE]

CoreDisplay_DisplayCreateInfoDictionary ==
    Decl("CoreDisplay_DisplayCreateInfoDictionary", "CFDictionaryRef",
         <<"CGDirectDisplayID">>, TRUE, FALSE)

CGDisplayCreateUUIDFromDisplayID ==
    Decl("CGDisplayCreateUUIDFromDisplayID", "CFUUIDRef",
         <<"CGDirectDisplayID">>, TRUE, FALSE)

DisplayServicesGetBrightness ==
    Decl("DisplayServicesGetBrightness", "int",
         <<"CGDirectDisplayID", "float*">>, TRUE, FALSE)

DisplayServicesSetBrightness ==
    Decl("DisplayServicesSetBrightness", "int",
         <<"CGDirectDisplayID", "float">>, TRUE, FALSE)

\* The linear getter returning the brightness by value.
DisplayServicesGetLinearBrightness_byValue ==
    [name |-> "DisplayServicesGetLinearBrightness", ret |-> "float",
     params |-> <<"CGDirectDisplayID">>,
     extern |-> TRUE, weak |-> FALSE, body |-> FALSE]

DisplayServicesGetLinearBrightness ==
    Decl("DisplayServicesGetLinearBrightness", "int",
         <<"CGDirectDisplayID", "float*">>, TRUE, FALSE)

\* The linear setter declared without a status.
DisplayServicesSetLinearBrightness_noStatus ==
    [name |-> "DisplayServicesSetLinearBrightness", ret |-> "void",
     params |-> <<"CGDirectDisplayID", "float">>,
     extern |-> TRUE, weak |-> FALSE, body |-> FALSE]

DisplayServicesSetLinearBrightness ==
    Decl("DisplayServicesSetLinearBrightness", "int",
         <<"CGDirectDisplayID", "float">>, TRUE, FALSE)

\* The resolver declared with a status return.
CGSServiceForDisplayNumber_withStatus ==
    [name |-> "CGSServiceForDisplayNumber", ret |-> "IOReturn",
     params |-> <<"CGDirectDisplayID", "io_service_t*">>,
     extern |-> TRUE, weak |-> FALSE, body |-> FALSE]

CGSServiceForDisplayNumber ==
    Decl("CGSServiceForDisplayNumber", "void",
         <<"CGDirectDisplayID", "io_service_t*">>, TRUE, FALSE)

\* The HDR-enabled query declared without weak_import.
CGSIsHDREnabled_strong ==
    [name |-> "CGSIsHDREnabled", ret |-> "bool",
     params |-> <<"CGDirectDisplayID">>,
     extern |-> FALSE, weak |-> FALSE, body |-> FALSE]

CGSIsHDREnabled ==
    Decl("CGSIsHDREnabled", "bool", <<"CGDirectDisplayID">>, FALSE, TRUE)

CGSIsHDRSupported ==
    Decl("CGSIsHDRSupported", "bool", <<"CGDirectDisplayID">>, FALSE, TRUE)

\* The table with the last declaration left out.
Declarations_lastDropped ==
    << IOAVServiceCreate, IOAVServiceCreateWithService,
       IOAVServiceReadI2C, IOAVServiceWriteI2C,
       CoreDisplay_DisplayCreateInfoDictionary,
       CGDisplayCreateUUIDFromDisplayID,
       DisplayServicesGetBrightness, DisplayServicesSetBrightness,
       DisplayServicesGetLinearBrightness, DisplayServicesSetLinearBrightness,
       CGSServiceForDisplayNumber,
       CGSIsHDREnabled >>

\* Every function declaration of the header, in source order.
Declarations ==
    << IOAVServiceCreate, IOAVServiceCreateWithService,
       IOAVServiceReadI2C, IOAVServiceWriteI2C,
       CoreDisplay_DisplayCreateInfoDictionary,
       CGDisplayCreateUUIDFromDisplayID,
       DisplayServicesGetBrightness, DisplayServicesSetBrightness,
       DisplayServicesGetLinearBrightness, DisplayServicesSetLinearBrightness,
       CGSServiceForDisplayNumber,
       CGSIsHDREnabled, CGSIsHDRSupported >>

\* Every other item of the header: the include guard, the includes, the typedef.
OtherItems ==
    { [line |-> 1, kind |-> "pragma", text |-> "once"],
      [line |-> 3, kind |-> "include", text |-> "Foundation/Foundation.h"],
      [line |-> 4, kind |-> "include", text |-> "IOKit/i2c/IOI2CInterface.h"],
      [line |-> 5, kind |-> "include", text |-> "CoreGraphics/CoreGraphics.h"],
      [line |-> 7, kind |-> "typedef_alias", text |-> "IOAVService"] }

DeclSet == {Declarations[i] : i \in 1..Len(Declarations)}
Names == {d.name : d \in DeclSet}
DeclOf(n) == CHOOSE d \in DeclSet : d.name = n

(***************************************************************************)
(* What the C declarations mean for a caller.                              *)
(***************************************************************************)

\* A parameter declared with a * declarator; none of them is const.
IsPointer(t) == t \in {"void*", "float*", "io_service_t*"}

Pointee(t) ==
    CASE t = "float*" -> "float"
      [] t = "io_service_t*" -> "io_service_t"
      [] OTHER -> "bytes"

\* The positions through which a callee can write into the caller's memory.
OutParams(d) == {i \in 1..Len(d.params) : IsPointer(d.params[i])}

\* The symbols a missing framework export leaves unbound without stopping
\* the launch: those declared weak_import.
WeakSymbols == {d.name : d \in {e \in DeclSet : e.weak}}

\* The storage and code the header itself defines.
OwnedDefinitions ==
    {d.name : d \in {e \in DeclSet : e.body}}
    \cup {i.text : i \in {j \in OtherItems :
                            j.kind \in {"variable", "struct", "enum", "macro"}}}

Value(t, from, ok) == [type |-> t, from |-> from, ok |-> ok]

\* The values a caller brings from outside this header: one of every
\* parameter type the header uses except the service handle, which the
\* header gives only as the return value of its two constructors.
CallerTypes ==
    {"CFAllocatorRef", "CGDirectDisplayID", "uint32_t", "float", "io_service_t",
     "void*", "float*", "io_service_t*"}

RECURSIVE ArgChoices(_, _)
ArgChoices(params, have) ==
    IF params = <<>> THEN {<<>>}
    ELSE {<<v>> \o rest : v \in {h \in have : h.type = params[1]},
                          rest \in ArgChoices(Tail(params), have)}

\* What a call returns to the caller: the declared return type carries the
\* platform's outcome; a void function returns nothing whatever the outcome.
Returned(d, ok) ==
    IF d.ret = "void" THEN Value("void", d.name, TRUE)
    ELSE Value(d.ret, d.name, ok)

NoCall ==
    [fn |-> "none", args |-> <<>>, ret |-> Value("void", "none", TRUE),
     wrote |-> {}, ok |-> TRUE, bound |-> TRUE]

Init ==
    /\ present \in {S \in SUBSET Names : Names \ WeakSymbols \subseteq S}
    /\ held = {Value(t, "caller", TRUE) : t \in CallerTypes}
    /\ last = NoCall
    /\ prev = NoCall
    /\ called = {}
    /\ ncalls = 0
    /\ crashed = FALSE

\* The caller's process is alive and may make another call.
Running == ~crashed /\ ncalls < MaxCalls

\* One call of the declared entry point d by the caller.
Call(d) ==
    /\ ncalls' = ncalls + 1
    /\ prev' = last
    /\ called' = called \cup {d.name}
    /\ present' = present
    /\ IF d.name \notin present
       THEN /\ crashed' = TRUE
            /\ held' = held
            /\ last' = [fn |-> d.name, args |-> <<>>,
                        ret |-> Value("void", "none", TRUE),
                        wrote |-> {}, ok |-> FALSE, bound |-> FALSE]
       ELSE /\ crashed' = FALSE
            /\ \E args \in ArgChoices(d.params, held), ok \in BOOLEAN,
                  wrote \in SUBSET OutParams(d) :
                 /\ last' = [fn |-> d.name, args |-> args,
                             ret |-> Returned(d, ok),
                             wrote |-> wrote, ok |-> ok, bound |-> TRUE]
                 /\ held' = held
                       \cup (IF d.ret = "void" THEN {} ELSE {Returned(d, ok)})
                       \cup {Value(Pointee(d.params[i]), d.name, TRUE) : i \in wrote}

Call_IOAVServiceCreate == Running /\ Call(IOAVServiceCreate)
Call_IOAVServiceCreateWithService == Running /\ Call(IOAVServiceCreateWithService)
Call_IOAVServiceReadI2C == Running /\ Call(IOAVServiceReadI2C)
Call_IOAVServiceWriteI2C == Running /\ Call(IOAVServiceWriteI2C)
Call_CoreDisplay_DisplayCreateInfoDictionary == Running /\ Call(CoreDisplay_DisplayCreateInfoDictionary)
Call_CGDisplayCreateUUIDFromDisplayID == Running /\ Call(CGDisplayCreateUUIDFromDisplayID)
Call_DisplayServicesGetBrightness == Running /\ Call(DisplayServicesGetBrightness)
Call_DisplayServicesSetBrightness == Running /\ Call(DisplayServicesSetBrightness)
Call_DisplayServicesGetLinearBrightness == Running /\ Call(DisplayServicesGetLinearBrightness)
Call_DisplayServicesSetLinearBrightness == Running /\ Call(DisplayServicesSetLinearBrightness)
Call_CGSServiceForDisplayNumber == Running /\ Call(CGSServiceForDisplayNumber)
Call_CGSIsHDREnabled == Running /\ Call(CGSIsHDREnabled)
Call_CGSIsHDRSupported == Running /\ Call(CGSIsHDRSupported)

Next ==
    \/ Call_IOAVServiceCreate
    \/ Call_IOAVServiceCreateWithService
    \/ Call_IOAVServiceReadI2C
    \/ Call_IOAVServiceWriteI2C
    \/ Call_CoreDisplay_DisplayCreateInfoDictionary
    \/ Call_CGDisplayCreateUUIDFromDisplayID
    \/ Call_DisplayServicesGetBrightness
    \/ Call_DisplayServicesSetBrightness
    \/ Call_DisplayServicesGetLinearBrightness
    \/ Call_DisplayServicesSetLinearBrightness
    \/ Call_CGSServiceForDisplayNumber
    \/ Call_CGSIsHDREnabled
    \/ Call_CGSIsHDRSupported

Spec == Init /\ [][Next]_vars

(***************************************************************************)
(* The declared surface, grouped by signature.                             *)
(***************************************************************************)

ParamTypes(d) == {d.params[i] : i \in 1..Len(d.params)}
ArgTypes(args) == [i \in 1..Len(args) |-> args[i].type]
NamesOf(S) == {d.name : d \in S}

\* Entry points that return a service handle.
Constructors == {d \in DeclSet : d.ret = IOAVService}
\* Entry points that take a service handle.
HandleUsers == {d \in DeclSet : IOAVService \in ParamTypes(d)}
\* Entry points that take or deliver a brightness.
BrightnessGetters == {d \in DeclSet : "float*" \in ParamTypes(d)}
BrightnessSetters == {d \in DeclSet : "float" \in ParamTypes(d)}
\* Entry points that write a service reference for the caller.
Resolvers == {d \in DeclSet : "io_service_t*" \in ParamTypes(d)}
\* The return types that are status codes.
StatusTypes == {"IOReturn", "int"}
StatusReturning == {d \in DeclSet : d.ret \in StatusTypes}

HDRNames == {"CGSIsHDREnabled", "CGSIsHDRSupported"}
I2CNames == {"IOAVServiceReadI2C", "IOAVServiceWriteI2C"}
ConstructorNames == {"IOAVServiceCreate", "IOAVServiceCreateWithService"}
GetterNames == {"DisplayServicesGetBrightness", "DisplayServicesGetLinearBrightness"}
SetterNames == {"DisplayServicesSetBrightness", "DisplayServicesSetLinearBrightness"}

\* A call that went through to the framework.
Made(names) == last.fn \in names /\ last.bound

(***************************************************************************)
(* C1: exactly CGSIsHDREnabled and CGSIsHDRSupported are weak imports; the *)
(* other eleven entry points are required imports.  So the only symbols    *)
(* that can be unbound in a running caller are those two, and a call       *)
(* through an unbound symbol can only be a call of one of those two.       *)
(***************************************************************************)
Thm_C1_OnlyHDRWeak ==
    /\ WeakSymbols = HDRNames
    /\ Names \ WeakSymbols =
         { "IOAVServiceCreate", "IOAVServiceCreateWithService",
           "IOAVServiceReadI2C", "IOAVServiceWriteI2C",
           "CoreDisplay_DisplayCreateInfoDictionary",
           "CGDisplayCreateUUIDFromDisplayID",
           "DisplayServicesGetBrightness", "DisplayServicesSetBrightness",
           "DisplayServicesGetLinearBrightness",
           "DisplayServicesSetLinearBrightness",
           "CGSServiceForDisplayNumber" }
    /\ Names \ present \subseteq HDRNames
    /\ crashed => last.fn \in HDRNames
    /\ (last.fn # "none" /\ ~last.bound) => last.fn \in HDRNames

\* An unguarded call of an absent HDR query after a required entry point
\* was called successfully.
Wit_C1_AbsentHDRCalled ==
    /\ crashed
    /\ last.fn = "CGSIsHDRSupported"
    /\ "CGSIsHDRSupported" \notin present
    /\ "CGSIsHDREnabled" \in present
    /\ prev.fn = "CGSServiceForDisplayNumber" /\ prev.bound

(***************************************************************************)
(* C2 as stated: every return value the header declares for an entry point *)
(* is a generic platform status code.                                      *)
(***************************************************************************)
Orig_C2_EveryReturnIsStatus ==
    (Made(Names) /\ last.ret.type # "void") => last.ret.type \in StatusTypes

(***************************************************************************)
(* C2 amended: the status-returning entry points are exactly the two I2C   *)
(* transfers (IOReturn) and the four brightness functions (int); every     *)
(* other declared return value is an object reference (the handle, the     *)
(* info dictionary, the UUID) or a bool answer, and the resolver returns   *)
(* nothing.  The header defines no error enumeration, constant or code.    *)
(***************************************************************************)
Thm_C2_StatusOnlyForTransfersAndBrightness ==
    /\ NamesOf(StatusReturning) = I2CNames \cup GetterNames \cup SetterNames
    /\ \A d \in DeclSet :
         d.ret \in StatusTypes
                   \cup {IOAVService, "CFDictionaryRef", "CFUUIDRef", "bool", "void"}
    /\ \A d \in DeclSet : d.name \in I2CNames => d.ret = "IOReturn"
    /\ \A d \in DeclSet : d.name \in GetterNames \cup SetterNames => d.ret = "int"
    /\ OwnedDefinitions = {}
    /\ Made(Names) =>
         (last.ret.type \in StatusTypes
            <=> last.fn \in I2CNames \cup GetterNames \cup SetterNames)
    /\ Made(Names) /\ last.ret.type \in StatusTypes => last.ret.ok = last.ok

\* A status-returning call that failed, right after a call that returned an
\* object reference instead of a status.
Wit_C2_StatusAfterObject ==
    /\ Made({"DisplayServicesSetLinearBrightness"})
    /\ last.ret.type = "int" /\ ~last.ret.ok
    /\ prev.fn = "CGDisplayCreateUUIDFromDisplayID"
    /\ prev.ret.type = "CFUUIDRef"

(***************************************************************************)
(* C3: the header defines no function body, no variable and no data        *)
(* structure: every function item is a bare declaration and every other    *)
(* item is an include, the include guard or a type alias, so there is no   *)
(* storage or code of its own for any call sequence to change.             *)
(***************************************************************************)
Thm_C3_NothingOwned ==
    /\ OwnedDefinitions = {}
    /\ \A d \in DeclSet : ~d.body
    /\ \A i \in OtherItems : i.kind \in {"pragma", "include", "typedef_alias"}
    /\ Made(Names) => ~DeclOf(last.fn).body

\* A full call sequence ran, with writes into the caller's memory.
Wit_C3_CallsMade ==
    /\ ncalls = MaxCalls
    /\ Cardinality(called) = MaxCalls
    /\ Made(Names) /\ last.wrote # {}
    /\ OwnedDefinitions = {}

(***************************************************************************)
(* C4: the header declares exactly 13 entry points: 2 handle constructors, *)
(* 2 I2C transfers, 1 display-info function, 1 display-UUID function,      *)
(* 4 brightness functions (a getter and a setter in each of the perceptual *)
(* and linear forms), 1 service resolver and 2 HDR queries; nothing else   *)
(* is declared, and a caller can call nothing else.                        *)
(***************************************************************************)
Thm_C4_ThirteenEntryPoints ==
    /\ Len(Declarations) = 13
    /\ Cardinality(Names) = 13
    /\ NamesOf(Constructors) = ConstructorNames
    /\ NamesOf(HandleUsers) = I2CNames
    /\ NamesOf({d \in DeclSet : d.ret = "CFDictionaryRef"})
         = {"CoreDisplay_DisplayCreateInfoDictionary"}
    /\ NamesOf({d \in DeclSet : d.ret = "CFUUIDRef"})
         = {"CGDisplayCreateUUIDFromDisplayID"}
    /\ NamesOf(BrightnessGetters) = GetterNames
    /\ NamesOf(BrightnessSetters) = SetterNames
    /\ NamesOf(Resolvers) = {"CGSServiceForDisplayNumber"}
    /\ NamesOf({d \in DeclSet : d.ret = "bool"}) = HDRNames
    /\ Names = ConstructorNames \cup I2CNames
                 \cup {"CoreDisplay_DisplayCreateInfoDictionary",
                       "CGDisplayCreateUUIDFromDisplayID"}
                 \cup GetterNames \cup SetterNames
                 \cup {"CGSServiceForDisplayNumber"} \cup HDRNames
    /\ called \subseteq Names
    /\ last.fn # "none" => last.fn \in Names

\* A call sequence that touched three of the groups, ending in the last
\* declared entry point.
Wit_C4_GroupsCalled ==
    /\ Made({"CGSIsHDRSupported"})
    /\ "CoreDisplay_DisplayCreateInfoDictionary" \in called
    /\ "IOAVServiceCreate" \in called

(***************************************************************************)
(* C5: IOAVServiceReadI2C and IOAVServiceWriteI2C both take, in order, a   *)
(* service handle, a 32-bit chip address, a 32-bit offset or data address, *)
(* a buffer pointer and a 32-bit size, and return a status code.  The only *)
(* pointer either passes is the buffer, so the read's data can come back   *)
(* only through it, and no length comes back: the return is the status and *)
(* no integer is passed by pointer.                                        *)
(***************************************************************************)
Thm_C5_I2CSignature ==
    LET sig == <<IOAVService, "uint32_t", "uint32_t", "void*", "uint32_t">>
    IN  /\ \A d \in DeclSet : d.name \in I2CNames =>
              /\ d.params = sig
              /\ d.ret = "IOReturn"
              /\ OutParams(d) = {4}
        /\ Made(I2CNames) =>
              /\ ArgTypes(last.args) = sig
              /\ last.ret.type = "IOReturn"
              /\ last.ret.ok = last.ok
              /\ last.wrote \subseteq {4}
              /\ \A v \in held : v.from = last.fn =>
                    v.type \in {"IOReturn", "bytes"}

\* A successful read that filled the caller's buffer.
Wit_C5_ReadFilledBuffer ==
    /\ Made({"IOAVServiceReadI2C"})
    /\ last.ok /\ last.wrote = {4}
    /\ last.args[4] = Value("void*", "caller", TRUE)
    /\ Value("bytes", "IOAVServiceReadI2C", TRUE) \in held

(***************************************************************************)
(* C6: the four brightness entry points take a display id first and return *)
(* a status code; the getters deliver the brightness through a pointer to  *)
(* float and never as the return value; the setters take it by value; the  *)
(* perceptual and the linear pair have the same signatures.                *)
(***************************************************************************)
Thm_C6_BrightnessSignatures ==
    /\ \A d \in DeclSet : d.name \in GetterNames =>
          d.params = <<"CGDirectDisplayID", "float*">> /\ d.ret = "int"
    /\ \A d \in DeclSet : d.name \in SetterNames =>
          d.params = <<"CGDirectDisplayID", "float">> /\ d.ret = "int"
    /\ Made(GetterNames) =>
          /\ ArgTypes(last.args) = <<"CGDirectDisplayID", "float*">>
          /\ last.ret.type = "int"
          /\ last.wrote \subseteq {2}
    /\ Made(SetterNames) =>
          /\ ArgTypes(last.args) = <<"CGDirectDisplayID", "float">>
          /\ last.ret.type = "int"
          /\ last.wrote = {}
    /\ \A v \in held : (v.type = "float" /\ v.from \in Names) =>
          /\ v.from \in GetterNames
          /\ Value("int", v.from, TRUE) \in held
               \/ Value("int", v.from, FALSE) \in held

\* The perceptual setter called with a brightness the linear getter wrote.
Wit_C6_SetWhatGetWrote ==
    /\ Made({"DisplayServicesSetBrightness"})
    /\ last.args[2] = Value("float", "DisplayServicesGetLinearBrightness", TRUE)
    /\ prev.fn = "DisplayServicesGetLinearBrightness" /\ prev.wrote = {2}

(***************************************************************************)
(* C7: CGSServiceForDisplayNumber declares no return value and delivers    *)
(* the service reference only through its out parameter: whether the       *)
(* resolution succeeded or failed, the call returns the same nothing, so   *)
(* only the out parameter can tell the two apart.                          *)
(***************************************************************************)
Thm_C7_ResolverReturnsNothing ==
    /\ CGSServiceForDisplayNumber.ret = "void"
    /\ OutParams(CGSServiceForDisplayNumber) = {2}
    /\ Pointee(CGSServiceForDisplayNumber.params[2]) = "io_service_t"
    /\ Made({"CGSServiceForDisplayNumber"}) =>
          /\ last.ret = Value("void", "CGSServiceForDisplayNumber", TRUE)
          /\ last.wrote \subseteq {2}
    /\ \A v \in held : v.from = "CGSServiceForDisplayNumber" =>
          v.type = "io_service_t"

\* A resolution that failed and wrote nothing.
Wit_C7_FailedResolution ==
    /\ Made({"CGSServiceForDisplayNumber"})
    /\ ~last.ok
    /\ last.wrote = {}
    /\ last.ret.type = "void"

(***************************************************************************)
(* C8: the service handle is one type, IOAVService, an alias of CFTypeRef: *)
(* both constructors return it, both I2C functions take it first, and no   *)
(* other entry point mentions it, so nothing declared here inspects,       *)
(* copies or destroys a handle: every handle a caller holds came from a    *)
(* constructor, and a handle used in a transfer is still held after it.    *)
(***************************************************************************)
Thm_C8_OneHandleType ==
    /\ IOAVService = "CFTypeRef"
    /\ NamesOf(Constructors) = ConstructorNames
    /\ NamesOf(HandleUsers) = I2CNames
    /\ \A d \in HandleUsers : d.params[1] = IOAVService
    /\ \A d \in HandleUsers :
          \A i \in 2..Len(d.params) : d.params[i] # IOAVService
    /\ Constructors \cap HandleUsers = {}
    /\ \A v \in held : v.type = IOAVService => v.from \in ConstructorNames
    /\ Made(I2CNames) => last.args[1] \in held
    /\ Made(ConstructorNames) => last.ret \in held

\* A write through a handle from the plain constructor, the handle still held.
Wit_C8_HandleUsedAndKept ==
    /\ Made({"IOAVServiceWriteI2C"})
    /\ last.args[1] = Value(IOAVService, "IOAVServiceCreate", TRUE)
    /\ last.args[1] \in held
    /\ prev.fn = "IOAVServiceCreate"

====
